---- MODULE Spec2Model ----
(***************************************************************************)
(* Ledger API: transactional write path, allocation engine, balances and   *)
(* audit trail, as implemented by                                          *)
(*   src/ledger-api/src/services/allocation.py                             *)
(*   src/ledger-api/src/services/reconciliation.py                         *)
(*   src/ledger-api/src/routes/transactions.py                             *)
(*   src/ledger-api/src/routes/treasury.py                                 *)
(*   src/ledger-api/src/routes/allocation_rules.py                         *)
(*   src/ledger-api/src/hooks/audit.py                                     *)
(*                                                                         *)
(* Units.  Monetary amounts are integers counting quantization units       *)
(* (Decimal("0.000000000001"), allocation.py:117).  Percentages are        *)
(* integers counting hundredths of a percent, so Decimal("100") is 10000   *)
(* and the tolerance Decimal("0.01") is 1.                                 *)
(*                                                                         *)
(* Rows.  The ORM classes under src/ledger-api/src/models declare several  *)
(* generations of the ledger_transactions table.  A row of this model      *)
(* carries the columns the handlers write (allocation.py:176-206,          *)
(* transactions.py:47-58), the status default of                           *)
(* models/ledger_transaction.py and the foreign key of models/models.py.   *)
(* A store that rejects a write is the commit_ok = FALSE branch of the     *)
(* action that writes.                                                     *)
(***************************************************************************)
EXTENDS Integers, Sequences, FiniteSets, TLC

----------------------------------------------------------------------------
(* Bounds of the model                                                     *)

MaxRequests == 2
MaxAmount == 12
MaxLargeFactor == 2
MaxDests == 3

----------------------------------------------------------------------------
(* Program constants                                                       *)

\* Decimal("100") in hundredths of a percent (allocation.py:106,116)
Hundred == 10000
\* Decimal("0.01") in hundredths of a percent (allocation.py:106)
Tolerance == 1

----------------------------------------------------------------------------
(* Arithmetic helpers                                                      *)

Abs(x) == IF x < 0 THEN -x ELSE x

\* Decimal.quantize(..., rounding=ROUND_DOWN): truncation toward zero of the
\* exact quotient n / d, d > 0, expressed in quantization units.
QuantizeRoundDown(n, d) == IF n >= 0 THEN n \div d ELSE -((-n) \div d)

RECURSIVE SumSeq(_)
\* sum(...) over a Python list of numbers
SumSeq(seq) ==
  IF seq = <<>> THEN 0 ELSE Head(seq) + SumSeq(Tail(seq))

RECURSIVE SumAmounts(_)
\* sum(t.amount for t in transactions) over a set of rows
SumAmounts(rows) ==
  IF rows = {} THEN 0
  ELSE LET r == CHOOSE x \in rows : TRUE
       IN r.amount + SumAmounts(rows \ {r})

----------------------------------------------------------------------------
(* Allocation rule configuration                                           *)

\* Accounts present in logical_accounts; "GHOST" is an identifier that
\* resolves to no account.
Accounts == {"A1", "A2", "A3"}
AccountIds == Accounts \cup {"GHOST"}

\* A destination condition as the service parses it (allocation.py:80-97):
\*   "none"      no condition
\*   ">" / "<"   "amount > T" / "amount < T"
\*   "other"     a comparison whose left side is not "amount" (ignored)
\*   "malformed" "amount > x" with x not a decimal literal
NoCondition == [op |-> "none", threshold |-> 0]

Dest(acct, pct) ==
  [destination_account_id |-> acct, percentage |-> pct, condition |-> NoCondition]

DestIf(acct, pct, op, thr) ==
  [destination_account_id |-> acct, percentage |-> pct,
   condition |-> [op |-> op, threshold |-> thr]]

----------------------------------------------------------------------------
(* AllocationService.calculate_allocations                                 *)

\* The condition of a destination raises decimal.InvalidOperation, which the
\* handler's "except (ValueError, IndexError)" does not catch.
ConditionRaises(dest) == dest.condition.op = "malformed"

\* A comparison that also keeps a destination at its threshold
ConditionExcludesBelowOnly(amount, dest) ==
  \/ dest.condition.op = ">" /\ amount < dest.condition.threshold
  \/ dest.condition.op = "<" /\ amount > dest.condition.threshold
\* allocation.py:80-97: TRUE when the destination is skipped ("continue").
ConditionExcludes(amount, dest) ==
  \/ dest.condition.op = ">" /\ amount <= dest.condition.threshold
  \/ dest.condition.op = "<" /\ amount >= dest.condition.threshold

\* allocation.py:73-102
ApplicableDestinations(amount, config) ==
  SelectSeq(config, LAMBDA d : ~ConditionExcludes(amount, d))

\* allocation.py:105
TotalPercentage(dests) ==
  SumSeq([i \in 1..Len(dests) |-> dests[i].percentage])

\* allocation.py:106, the guard that raises ValueError
PercentagesRejectedWide(dests) == Abs(TotalPercentage(dests) - Hundred) > Hundred
PercentagesRejected(dests) == Abs(TotalPercentage(dests) - Hundred) > Tolerance

\* allocation.py:116-118, the amount of every destination but the last
TruncatedShare(amount, dest) ==
  QuantizeRoundDown(amount * dest.percentage, Hundred)

\* allocation.py:113-129: the amounts in declared order; the last one is
\* amount - total_allocated.
AllocationAmountsNoRemainder(amount, dests) ==
  [i \in 1..Len(dests) |-> TruncatedShare(amount, dests[i])]
AllocationAmounts(amount, dests) ==
  LET n == Len(dests)
      head == [i \in 1..(n - 1) |-> TruncatedShare(amount, dests[i])]
  IN [i \in 1..n |-> IF i < n THEN head[i] ELSE amount - SumSeq(head)]

\* allocation.py:48-131.  kind is "ok", "ValueError" or "InvalidOperation".
calculate_allocations(amount, config) ==
  IF \E i \in 1..Len(config) : ConditionRaises(config[i])
  THEN [kind |-> "InvalidOperation", allocations |-> <<>>]
  ELSE LET dests == ApplicableDestinations(amount, config)
       IN IF PercentagesRejected(dests)
          THEN [kind |-> "ValueError", allocations |-> <<>>]
          ELSE LET amts == AllocationAmounts(amount, dests)
               IN [kind |-> "ok",
                   allocations |->
                     [i \in 1..Len(dests) |->
                        [destination_account_id |-> dests[i].destination_account_id,
                         percentage |-> dests[i].percentage,
                         amount |-> amts[i]]]]

----------------------------------------------------------------------------
(* Stored data                                                             *)

\* account_type of each account.  The service compares against upper-case
\* names (reconciliation.py:69, treasury.py:189-194) while the table's CHECK
\* constraint lists lower-case names (models.py:113-118); A3 carries the
\* lower-case spelling the constraint admits.
AccountType == [a \in Accounts |->
  CASE a = "A1" -> "ASSET"
    [] a = "A2" -> "LIABILITY"
    [] a = "A3" -> "liability"]

\* allocation_rules rows present at start-up.
RuleCatalog == {
  [rule_id |-> 1, source_account_id |-> "A1", is_active |-> TRUE, priority |-> 2,
   allocation_config |-> <<Dest("A2", 3333), Dest("A3", 3333), Dest("A1", 3334)>>],
  [rule_id |-> 2, source_account_id |-> "A2", is_active |-> TRUE, priority |-> 1,
   allocation_config |-> <<Dest("A1", 5000), Dest("A3", 5001), Dest("A1", 0)>>],
  [rule_id |-> 3, source_account_id |-> "A3", is_active |-> TRUE, priority |-> 1,
   allocation_config |-> <<Dest("A1", 5000), DestIf("A2", 5000, ">", 5)>>],
  [rule_id |-> 4, source_account_id |-> "A1", is_active |-> TRUE, priority |-> 1,
   allocation_config |-> <<Dest("GHOST", 10000)>>],
  [rule_id |-> 5, source_account_id |-> "A3", is_active |-> FALSE, priority |-> 2,
   allocation_config |-> <<Dest("A1", 10000)>>] }

RuleIds == {r.rule_id : r \in RuleCatalog}

\* A ledger row.  id is <<request, k>>; parent is the transaction id quoted in
\* the description ("Auto-allocation for transaction {id}"), <<0, 0>> if none;
\* batch is 0 for a row without batch_id.
NoId == <<0, 0>>

Row(id, acct, ttype, amount, status, batch, sys, atype, parent, rule) ==
  [id |-> id, account_id |-> acct, transaction_type |-> ttype, amount |-> amount,
   status |-> status, batch_id |-> batch, source_system |-> sys,
   allocation_type |-> atype, parent |-> parent, rule_id |-> rule]

\* Column default of ledger_transactions.status
\* (models/ledger_transaction.py:31-37); no handler sets status explicitly.
DefaultStatus == "PENDING"

\* Rows already in the ledger at start-up, posted and not posted.
SeedRows == {
  Row(<<0, 1>>, "A1", "DEBIT", 7, "POSTED", 0, "seed", "none", NoId, 0),
  Row(<<0, 2>>, "A1", "CREDIT", 2, "PENDING", 0, "seed", "none", NoId, 0),
  Row(<<0, 3>>, "A2", "CREDIT", 5, "POSTED", 0, "seed", "none", NoId, 0),
  Row(<<0, 4>>, "A3", "CREDIT", 4, "POSTED", 0, "seed", "none", NoId, 0),
  Row(<<0, 5>>, "A2", "DEBIT", 1, "RECONCILED", 0, "seed", "none", NoId, 0) }

----------------------------------------------------------------------------
(* Balances                                                                *)

\* AllocationService.get_account_balance (allocation.py:223-246)
get_account_balance(rows, account_id) ==
  LET transactions == {t \in rows : t.account_id = account_id}
      credits == SumAmounts({t \in transactions : t.transaction_type = "CREDIT"})
      debits == SumAmounts({t \in transactions : t.transaction_type = "DEBIT"})
  IN credits - debits

\* ReconciliationService.calculate_ledger_balance (reconciliation.py:27-72),
\* for an existing account and as_of_date = None.
calculate_ledger_balance(rows, account_id) ==
  LET posted == {t \in rows : t.account_id = account_id /\ t.status = "POSTED"}
      net_balance == SumAmounts({t \in posted : t.transaction_type = "DEBIT"})
                     - SumAmounts({t \in posted : t.transaction_type # "DEBIT"})
  IN IF AccountType[account_id] \in {"LIABILITY", "EQUITY", "REVENUE"}
     THEN -net_balance
     ELSE net_balance

----------------------------------------------------------------------------
(* Request inputs                                                          *)

\* Strings the handler inspects character by character are tuples of
\* one-character strings.
COMPLETED == <<"C", "O", "M", "P", "L", "E", "T", "E", "D">>

\* A status field of the request body: absent (None) or a string.
NoStatus == [present |-> FALSE, text |-> <<>>]
Status(text) == [present |-> TRUE, text |-> text]

StatusInputs == {
  NoStatus,
  Status(COMPLETED),
  Status(<<"c", "o", "m", "p", "l", "e", "t", "e", "d">>),
  Status(<<"P", "E", "N", "D", "I", "N", "G">>) }

\* str.upper() on one character of the alphabet of the inputs
UpperChar(c) ==
  CASE c = "c" -> "C" [] c = "o" -> "O" [] c = "m" -> "M" [] c = "p" -> "P"
    [] c = "l" -> "L" [] c = "e" -> "E" [] c = "t" -> "T" [] c = "d" -> "D"
    [] OTHER -> c

\* str.upper()
Upper(text) == [i \in 1..Len(text) |-> UpperChar(text[i])]

\* transactions.py:65
TriggersAllocationCaseSensitive(status) ==
  status.present /\ status.text # <<>> /\ status.text = COMPLETED
TriggersAllocation(status) ==
  status.present /\ status.text # <<>> /\ Upper(status.text) = COMPLETED

\* transaction_type a create request may carry; the handler copies it into the
\* row unread (transactions.py:51).
TransactionTypes == {"CREDIT"}

\* Amounts a request may carry, in quantization units.
RequestAmounts == {3, Hundred}

----------------------------------------------------------------------------
(* AllocationService.execute_allocation                                    *)

\* allocation.py:155-167 and get_active_rules (allocation.py:18-46): the
\* rules "rule" may be bound to; rule_id = 0 stands for None.  Rules of equal
\* priority come back in an order the query does not fix.
CandidateRules(rs, source_account_id, rule_id) ==
  IF rule_id # 0
  THEN {r \in rs : r.rule_id = rule_id /\ r.is_active}
  ELSE LET active == {r \in rs : r.source_account_id = source_account_id
                                  /\ r.is_active}
       IN {r \in active : \A o \in active : o.priority <= r.priority}

\* allocation.py:173-208: the source debit and one credit per allocation.
AllocationRowsDebitChildren(amount, source_account_id, rule, allocations, req, parent) ==
  {Row(<<req, 1>>, source_account_id, "DEBIT", amount, DefaultStatus, req,
       "allocation_engine", "source", parent, rule.rule_id)}
  \cup
  {Row(<<req, 1 + i>>, allocations[i].destination_account_id, "DEBIT",
       allocations[i].amount, DefaultStatus, req,
       "allocation_engine", "destination", parent, rule.rule_id)
     : i \in 1..Len(allocations)}
AllocationRows(amount, source_account_id, rule, allocations, req, parent) ==
  {Row(<<req, 1>>, source_account_id, "DEBIT", amount, DefaultStatus, req,
       "allocation_engine", "source", parent, rule.rule_id)}
  \cup
  {Row(<<req, 1 + i>>, allocations[i].destination_account_id, "CREDIT",
       allocations[i].amount, DefaultStatus, req,
       "allocation_engine", "destination", parent, rule.rule_id)
     : i \in 1..Len(allocations)}

\* FOREIGN KEY ledger_transactions.account_id -> logical_accounts.id
\* (models.py:127, alembic 001_initial_ledger_schema.py:55)
ForeignKeysHold(rows) == \A t \in rows : t.account_id \in Accounts

\* allocation.py:133-221 with one rule bound: what self.db.commit() at line 211
\* makes durable.  "pending" holds the rows the session already carries (the
\* flushed parent of create_transaction); they are committed with the batch.
ExecuteWithRuleOwnSession(pending, amount, source_account_id, rule, req, parent) ==
  LET calc == calculate_allocations(amount, rule.allocation_config)
      rows == AllocationRows(amount, source_account_id, rule,
                             calc.allocations, req, parent)
  IN IF calc.kind # "ok" THEN [kind |-> calc.kind, rows |-> {}]
     ELSE IF ~ForeignKeysHold(rows) THEN [kind |-> "IntegrityError", rows |-> {}]
     ELSE [kind |-> "ok", rows |-> rows]
ExecuteWithRule(pending, amount, source_account_id, rule, req, parent) ==
  LET calc == calculate_allocations(amount, rule.allocation_config)
      rows == pending \cup AllocationRows(amount, source_account_id, rule,
                                          calc.allocations, req, parent)
  IN IF calc.kind # "ok" THEN [kind |-> calc.kind, rows |-> {}]
     ELSE IF ~ForeignKeysHold(rows) THEN [kind |-> "IntegrityError", rows |-> {}]
     ELSE [kind |-> "ok", rows |-> rows]

\* allocation.py:133-221: the set of possible results.
execute_allocation(rs, pending, amount, source_account_id, rule_id, req, parent) ==
  LET candidates == CandidateRules(rs, source_account_id, rule_id)
  IN IF candidates = {}
     THEN {[kind |-> "ValueError", rows |-> {}]}
     ELSE {ExecuteWithRule(pending, amount, source_account_id, r, req, parent)
             : r \in candidates}

----------------------------------------------------------------------------
(* State                                                                   *)

VARIABLES
  ledger,    \* committed rows of ledger_transactions
  audit,     \* committed rows of audit_log
  rules,     \* committed rows of allocation_rules
  inflight,  \* requests that have committed once and have a step left
  nextReq,   \* number of the next request
  log,       \* log[r]: what request r asked for and the response it got
  calc,      \* input and result of a stand-alone calculate_allocations call
  validation, \* input and result of a stand-alone validation of a rule body
  recons,    \* committed rows of the reconciliation table
  settings,  \* the Settings instance of the process
  service,   \* "stopped", "running" or "failed"
  patches,   \* committed rows of the workflow_patches table
  patch_out  \* how the last call on the patch agent or its routes ended

\* The variables the ledger handlers do not touch
ext == <<validation, recons, settings, service, patches, patch_out>>

vars == <<ledger, audit, rules, inflight, nextReq, log, calc, ext>>

NoValidation == [rules |-> <<>>, kind |-> "none", message |-> <<>>]

\* config.py:21, the default of GUARDIAN_JWT_SECRET, by its length in bytes
DefaultSecretLength == 31
DefaultSecret == [is_default |-> TRUE, length |-> DefaultSecretLength]
\* A secret set through the environment
EnvSecret(length) == [is_default |-> FALSE, length |-> length]

\* Settings of a deployment.  AUTO_RECONCILE is read by the reconciliation
\* service (reconciliation.py:114) and is set per deployment.
Settings(secret, auto) == [GUARDIAN_JWT_SECRET |-> secret, AUTO_RECONCILE |-> auto]

\* No call on the patch agent has ended yet
NoPatchOut == [op |-> "none", patch_id |-> 0, kind |-> "none", message |-> <<>>]

\* Nothing of the stand-alone calls has run; the process is up
ExtIdle ==
  /\ patches = {}
  /\ patch_out = NoPatchOut
  /\ validation = NoValidation
  /\ recons = {}
  /\ settings = Settings(EnvSecret(40), TRUE)
  /\ service = "running"

NoCalc == [amount |-> 0, config |-> <<>>, kind |-> "none", allocations |-> <<>>,
           rows |-> {}]

\* One audit_log row (audit.py:45-57)
AuditEntry(entity_type, entity_id, action, req) ==
  [entity_type |-> entity_type, entity_id |-> entity_id, action |-> action,
   req |-> req]

\* log entry: the operation, the status field of the request body, whether
\* execute_allocation was called and how it ended ("none" when not called),
\* and the HTTP status code (0: the response has not been sent yet)
LogEntry(op, status, invoked, alloc, code) ==
  [op |-> op, status |-> status, invoked |-> invoked, alloc |-> alloc,
   code |-> code]

\* How a call of execute_allocation ended, given whether its commit went through
AllocOutcome(out, commit_ok) ==
  IF out.kind = "ok" /\ ~commit_ok THEN "CommitError" ELSE out.kind

Respond(req, code) == [log EXCEPT ![req].code = code]

Init ==
  /\ ledger = SeedRows
  /\ audit = {}
  /\ rules = RuleCatalog
  /\ inflight = {}
  /\ nextReq = 1
  /\ log = <<>>
  /\ calc = NoCalc
  /\ ExtIdle

----------------------------------------------------------------------------
(* POST /api/v1/transactions  (transactions.py:23-110)                     *)

ParentRow(req, account_id, ttype, amount) ==
  Row(<<req, 0>>, account_id, ttype, amount, DefaultStatus, 0, "api", "none",
      NoId, 0)

\* transactions.py:61-83, 102-110: the rows of the session that are durable
\* once the completing branch has returned or raised.  The parent is only
\* flushed (line 62), so db.rollback() (lines 76, 106) discards it.
DurableAfterAllocationFlushCommits(parent, out, commit_ok) ==
  IF out.kind = "ok" /\ commit_ok THEN out.rows ELSE {parent}
DurableAfterAllocation(parent, out, commit_ok) ==
  IF out.kind = "ok" /\ commit_ok THEN out.rows ELSE {}

\* transactions.py:36-44: the account does not exist, 404
CreateTransactionNotFound ==
  /\ nextReq <= MaxRequests
  /\ \E account_id \in AccountIds \ Accounts, status \in StatusInputs :
       log' = Append(log, LogEntry("create_transaction", status, FALSE, "none", 404))
  /\ nextReq' = nextReq + 1
  /\ UNCHANGED <<ledger, audit, rules, inflight, calc, ext>>

\* transactions.py:46-83 for a request that does not complete: add, flush,
\* commit (line 83).  The audit call (lines 86-98) is the step that follows.
CreateTransactionPlain ==
  /\ nextReq <= MaxRequests
  /\ \E account_id \in Accounts, ttype \in TransactionTypes,
        amount \in RequestAmounts, status \in StatusInputs, commit_ok \in BOOLEAN :
       /\ ~TriggersAllocation(status)
       /\ IF commit_ok
          THEN /\ ledger' = ledger \cup {ParentRow(nextReq, account_id, ttype, amount)}
               /\ inflight' = inflight \cup
                    {[req |-> nextReq, kind |-> "audit_create",
                      entity_id |-> <<nextReq, 0>>]}
               /\ log' = Append(log, LogEntry("create_transaction", status, FALSE, "none", 0))
          ELSE \* commit raises: except Exception -> rollback, 500
               /\ log' = Append(log, LogEntry("create_transaction", status, FALSE, "none", 500))
               /\ UNCHANGED <<ledger, inflight>>
  /\ nextReq' = nextReq + 1
  /\ UNCHANGED <<audit, rules, calc, ext>>

\* transactions.py:46-83 for a request that completes: add, flush, then
\* execute_allocation, whose commit (allocation.py:211) makes the parent and
\* the batch durable together; ValueError -> rollback, 400 (lines 74-80);
\* any other exception -> rollback, 500 (lines 105-110).
CreateTransactionCompleted ==
  /\ nextReq <= MaxRequests
  /\ \E account_id \in Accounts, ttype \in TransactionTypes,
        amount \in RequestAmounts, status \in StatusInputs, commit_ok \in BOOLEAN :
       /\ TriggersAllocation(status)
       /\ LET parent == ParentRow(nextReq, account_id, ttype, amount)
          IN \E out \in execute_allocation(rules, {parent}, amount, account_id,
                                           0, nextReq, parent.id) :
               /\ ledger' = ledger \cup DurableAfterAllocation(parent, out, commit_ok)
               /\ IF out.kind = "ok" /\ commit_ok
                  THEN /\ inflight' = inflight \cup
                            {[req |-> nextReq, kind |-> "audit_create",
                              entity_id |-> parent.id]}
                       /\ log' = Append(log, LogEntry("create_transaction", status,
                                                      TRUE, "ok", 0))
                  ELSE /\ log' = Append(log, LogEntry("create_transaction", status, TRUE,
                                                      AllocOutcome(out, commit_ok),
                                                      IF out.kind = "ValueError"
                                                      THEN 400 ELSE 500))
                       /\ UNCHANGED inflight
  /\ nextReq' = nextReq + 1
  /\ UNCHANGED <<audit, rules, calc, ext>>

\* A hook that keeps one row per entity type and overwrites it
LogTransactionCreateOverwrites ==
  \E t \in inflight :
    /\ t.kind = "audit_create"
    /\ audit' = {e \in audit : e.entity_type # "transaction"}
                   \cup {AuditEntry("transaction", t.entity_id, "CREATE", t.req)}
    /\ inflight' = inflight \ {t}
    /\ log' = Respond(t.req, 201)
    /\ UNCHANGED <<ledger, rules, nextReq, calc, ext>>
\* transactions.py:86-98 -> AuditHook.log_change (audit.py:45-63): add the
\* audit row and commit it, in a unit of work of its own.
LogTransactionCreate ==
  \E t \in inflight :
    /\ t.kind = "audit_create"
    /\ audit' = audit \cup {AuditEntry("transaction", t.entity_id, "CREATE", t.req)}
    /\ inflight' = inflight \ {t}
    /\ log' = Respond(t.req, 201)
    /\ UNCHANGED <<ledger, rules, nextReq, calc, ext>>

\* The audit commit raises: except Exception -> rollback, 500
\* (transactions.py:105-110); the rollback finds nothing left to undo.
LogTransactionCreateFails ==
  \E t \in inflight :
    /\ t.kind = "audit_create"
    /\ inflight' = inflight \ {t}
    /\ log' = Respond(t.req, 500)
    /\ UNCHANGED <<ledger, audit, rules, nextReq, calc, ext>>

----------------------------------------------------------------------------
(* POST /api/v1/treasury/allocate  (treasury.py:94-144)                    *)

\* Descriptions a caller may send: none, or the description of an allocation
\* already in the ledger (a retry of the allocation of that transaction).
QuotableParents ==
  {NoId} \cup {t.parent : t \in {x \in ledger : x.allocation_type = "source"}}

\* treasury.py:105-114
TriggerAllocationNotFound ==
  /\ nextReq <= MaxRequests
  /\ log' = Append(log, LogEntry("trigger_allocation", NoStatus, FALSE, "none", 404))
  /\ nextReq' = nextReq + 1
  /\ UNCHANGED <<ledger, audit, rules, inflight, calc, ext>>

\* treasury.py:116-144
trigger_allocation ==
  /\ nextReq <= MaxRequests
  /\ \E source_account_id \in Accounts, amount \in RequestAmounts,
        rule_id \in {0} \cup RuleIds, parent \in QuotableParents,
        commit_ok \in BOOLEAN :
       \E out \in execute_allocation(rules, {}, amount, source_account_id,
                                     rule_id, nextReq, parent) :
         IF out.kind = "ok" /\ commit_ok
         THEN /\ ledger' = ledger \cup out.rows
              /\ log' = Append(log, LogEntry("trigger_allocation", NoStatus, TRUE, "ok", 200))
         ELSE /\ log' = Append(log, LogEntry("trigger_allocation", NoStatus, TRUE,
                                             AllocOutcome(out, commit_ok),
                                             IF out.kind = "ValueError"
                                             THEN 400 ELSE 500))
              /\ UNCHANGED ledger
  /\ nextReq' = nextReq + 1
  /\ UNCHANGED <<audit, rules, inflight, calc, ext>>

----------------------------------------------------------------------------
(* DELETE /api/v1/allocation-rules/{rule_id}  (allocation_rules.py:177-209) *)

\* allocation_rules.py:185-193
DeleteAllocationRuleNotFound ==
  /\ nextReq <= MaxRequests
  /\ \E rule_id \in RuleIds :
       /\ \A r \in rules : r.rule_id # rule_id
       /\ log' = Append(log, LogEntry("delete_allocation_rule", NoStatus, FALSE, "none", 404))
  /\ nextReq' = nextReq + 1
  /\ UNCHANGED <<ledger, audit, rules, inflight, calc, ext>>

\* The audit hook of this route (get_audit_hook, log_delete) is not part of
\* src/; by the contract of the audit writer it adds its entry to the unit of
\* work of the caller.  The entries the call adds to the session:
log_delete(entity_type, entity_id, req) ==
  {AuditEntry(entity_type, entity_id, "DELETE", req)}

\* allocation_rules.py:195-209: log_delete, db.delete(rule), db.commit();
\* a failing commit ends the request with 500 and nothing durable.
delete_allocation_rule ==
  /\ nextReq <= MaxRequests
  /\ \E r \in rules, commit_ok \in BOOLEAN :
       IF commit_ok
       THEN /\ audit' = audit \cup log_delete("allocation_rule", <<0, r.rule_id>>, nextReq)
            /\ rules' = rules \ {r}
            /\ log' = Append(log, LogEntry("delete_allocation_rule", NoStatus, FALSE, "none", 200))
       ELSE /\ log' = Append(log, LogEntry("delete_allocation_rule", NoStatus, FALSE, "none", 500))
            /\ UNCHANGED <<audit, rules>>
  /\ nextReq' = nextReq + 1
  /\ UNCHANGED <<ledger, inflight, calc, ext>>

----------------------------------------------------------------------------
(* Specification of the service                                            *)

Next ==
  \/ CreateTransactionNotFound
  \/ CreateTransactionPlain
  \/ CreateTransactionCompleted
  \/ LogTransactionCreate
  \/ LogTransactionCreateFails
  \/ TriggerAllocationNotFound
  \/ trigger_allocation
  \/ DeleteAllocationRuleNotFound
  \/ delete_allocation_rule

Spec == Init /\ [][Next]_vars

----------------------------------------------------------------------------
(* Specification of the allocation arithmetic: one call of                 *)
(* execute_allocation, hence calculate_allocations, on an empty session,   *)
(* for every amount and every rule configuration of the bounded domain.    *)

CalcPercentages == {0, 1, 3333, 3334, 4999, 5000, 5001, 9999, 10000}

CalcAmounts ==
  (-MaxAmount..MaxAmount)
  \cup {Hundred * k : k \in 1..MaxLargeFactor}
  \cup {-(Hundred * k) : k \in 1..MaxLargeFactor}

CalcAccount(i) == CASE i % 3 = 1 -> "A2" [] i % 3 = 2 -> "A3" [] OTHER -> "A1"

\* Configurations whose destinations carry conditions "amount > T" and
\* "amount < T": a conditional half, a conditional destination of 0 %, and two
\* complementary destinations
ConditionalConfigs ==
  UNION {{ <<Dest("A2", 5000), DestIf("A3", 5000, op, threshold)>>,
           <<Dest("A2", Hundred), DestIf("A3", 0, op, threshold)>>,
           <<DestIf("A2", Hundred, ">", threshold), DestIf("A3", Hundred, "<", threshold)>> }
           : op \in {">", "<"}, threshold \in {0, 5}}

CalcConfigs ==
  {r.allocation_config : r \in RuleCatalog}
  \cup ConditionalConfigs
  \cup UNION {{[i \in 1..n |-> Dest(CalcAccount(i), p[i])]
                 : p \in [1..n -> CalcPercentages]} : n \in 0..MaxDests}

CalcRule(config) ==
  [rule_id |-> 9, source_account_id |-> "A1", is_active |-> TRUE, priority |-> 1,
   allocation_config |-> config]

InitCalc ==
  /\ ledger = SeedRows
  /\ audit = {}
  /\ rules = RuleCatalog
  /\ inflight = {}
  /\ nextReq = 1
  /\ log = <<>>
  /\ \E amount \in CalcAmounts, config \in CalcConfigs :
       calc = [amount |-> amount, config |-> config, kind |-> "input",
               allocations |-> <<>>, rows |-> {}]
  /\ ExtIdle

CalculateAndExecute ==
  /\ calc.kind = "input"
  /\ LET c == calculate_allocations(calc.amount, calc.config)
         out == ExecuteWithRule({}, calc.amount, "A1", CalcRule(calc.config), 1, NoId)
     IN calc' = [calc EXCEPT !.kind = out.kind, !.allocations = c.allocations,
                             !.rows = out.rows]
  /\ UNCHANGED <<ledger, audit, rules, inflight, nextReq, log, ext>>

NextCalc == CalculateAndExecute

SpecCalc == InitCalc /\ [][NextCalc]_vars

----------------------------------------------------------------------------
(* Validation of a rule body (schemas/allocation_rule.py)                  *)

\* One AllocationRuleItem of a request body (allocation_rule.py:9-13)
RuleItem(acct, pct) == [destination_account_id |-> acct, percentage |-> pct]

\* allocation_rule.py:12: percentage ... ge=0, le=100
ItemRejected(item) == item.percentage < 0 \/ item.percentage > Hundred

\* allocation_rule.py:27
RulesTotal(v) == SumSeq([i \in 1..Len(v) |-> v[i].percentage])

\* allocation_rule.py:28, the guard that raises ValueError
RulesTotalRejectedAtBound(v) == Abs(RulesTotal(v) - Hundred) >= Tolerance
RulesTotalRejected(v) == Abs(RulesTotal(v) - Hundred) > Tolerance

\* allocation_rule.py:23-30.  The message is the f-string of line 29 in
\* pieces: text, "100.0", text, the place of the total.
validate_percentages_sum_to_100(v) ==
  IF RulesTotalRejected(v)
  THEN [kind |-> "ValueError",
        message |-> <<"Allocation percentages must sum to ", "100.0", ", got ",
                      "{total}">>]
  ELSE [kind |-> "ok", message |-> <<>>]

\* allocation_rule.py:9-30: validation of the field "rules" of a body: every
\* item against its field constraints, then the validator of the list.  The
\* text of an item error is the library's and is not modelled.
AllocationRuleBase(v) ==
  IF \E i \in 1..Len(v) : ItemRejected(v[i])
  THEN [kind |-> "ValidationError", message |-> <<>>]
  ELSE validate_percentages_sum_to_100(v)

\* Percentages a body may carry, in hundredths of a percent
BodyPercentages == CalcPercentages \cup {-1, 2, Hundred + 1}

\* Lists of items a body may carry
BodyRules ==
  UNION {{[i \in 1..n |-> RuleItem(CalcAccount(i), p[i])]
            : p \in [1..n -> BodyPercentages]} : n \in 0..MaxDests}

InitValidate ==
  /\ ledger = SeedRows
  /\ audit = {}
  /\ rules = RuleCatalog
  /\ inflight = {}
  /\ nextReq = 1
  /\ log = <<>>
  /\ calc = NoCalc
  /\ \E v \in BodyRules :
       validation = [rules |-> v, kind |-> "input", message |-> <<>>]
  /\ recons = {}
  /\ patches = {}
  /\ patch_out = NoPatchOut
  /\ settings = Settings(EnvSecret(40), TRUE)
  /\ service = "running"

ValidateBody ==
  /\ validation.kind = "input"
  /\ LET out == AllocationRuleBase(validation.rules)
     IN validation' = [validation EXCEPT !.kind = out.kind, !.message = out.message]
  /\ UNCHANGED <<ledger, audit, rules, inflight, nextReq, log, calc,
                 recons, settings, service, patches, patch_out>>

NextValidate == ValidateBody

SpecValidate == InitValidate /\ [][NextValidate]_vars

----------------------------------------------------------------------------
(* Role check (deps/auth.py)                                               *)

\* Role names, character by character
AllocationManager ==
  <<"a", "l", "l", "o", "c", "a", "t", "i", "o", "n", "_",
    "m", "a", "n", "a", "g", "e", "r">>
Admin == <<"a", "d", "m", "i", "n">>

\* The argument of require_role: a list of role names, or one str
RoleList(names) == [type |-> "list", value |-> names]
RoleStr(name) == [type |-> "str", value |-> name]

\* "for role in required_roles": the elements of a list, the one-character
\* strings of a str
Iterate(required_roles) ==
  IF required_roles.type = "str"
  THEN {<<required_roles.value[i]>> : i \in 1..Len(required_roles.value)}
  ELSE {required_roles.value[i] : i \in 1..Len(required_roles.value)}

\* auth.py:168-173: role_checker lets the user through
RoleCheckPasses(required_roles, user_roles) ==
  \E role \in Iterate(required_roles) :
    \E j \in 1..Len(user_roles) : user_roles[j] = role

\* allocation_rules.py:27, 114, 182: Depends(require_role("allocation_manager"))
RuleEndpointRequirement == RoleStr(AllocationManager)

\* Bearer tokens a caller may present: none that decodes (auth.py:103-104),
\* or a payload with its list of roles (auth.py:97)
NoToken == [valid |-> FALSE, roles |-> <<>>]
Token(roles) == [valid |-> TRUE, roles |-> roles]
TokenInputs ==
  {NoToken, Token(<<>>), Token(<<AllocationManager>>), Token(<<Admin>>),
   Token(<<Admin, <<"a">>>>)}

----------------------------------------------------------------------------
(* POST and PATCH /api/v1/allocation-rules  (allocation_rules.py:22-158)   *)

\* AllocationService.validate_allocation_rules is not part of src/; by the
\* contract of validate_rule it fails when the list is empty, when a
\* percentage is outside [0, 100] or when the percentages do not sum to 100
\* within 0.01.  Existence of the destination accounts is the business of a
\* separate operation, which the routes do not call.
validate_allocation_rules(v) ==
  IF v = <<>> \/ (\E i \in 1..Len(v) : ItemRejected(v[i])) \/ RulesTotalRejected(v)
  THEN "ValueError" ELSE "ok"

\* The audit hook of these routes (get_audit_hook, log_create, log_update) is
\* not part of src/; by the contract of the audit writer it adds its entry to
\* the unit of work of the caller.  The routes call it after db.commit()
\* (allocation_rules.py:54-65, 141-156) and commit nothing afterwards, so
\* what it adds is discarded when the session closes: the entries that
\* become durable.
log_after_commit(entity_type, entity_id, action, req) == {}

\* Bodies a caller may send: None (PATCH without rules) or a list of items
NoBody == [present |-> FALSE, rules |-> <<>>]
Body(v) == [present |-> TRUE, rules |-> v]
RuleBodies ==
  {Body(<<RuleItem("A2", Hundred)>>),
   Body(<<RuleItem("GHOST", Hundred)>>),
   Body(<<RuleItem("A2", 5000), RuleItem("GHOST", 5000)>>),
   Body(<<RuleItem("A2", 5000)>>),
   Body(<<>>)}

\* rules_dict as stored in the rule (allocation_rules.py:34, 46)
StoredConfig(v) ==
  [i \in 1..Len(v) |-> Dest(v[i].destination_account_id, v[i].percentage)]

\* log entry of a rule request
RuleLogEntry(op, token, body, code) ==
  [op |-> op, token |-> token, body |-> body, code |-> code]

\* The response code reached before the handler touches the store:
\* 401 (auth.py:103-104), 403 (auth.py:169-172), 422 (body validation),
\* 404 (allocation_rules.py:121-125), 400 (allocation_rules.py:36-40,
\* 142-146); 0 when the request goes on to its commit.
RuleRequestRefusal(token, body, found) ==
  IF ~token.valid THEN 401
  ELSE IF ~RoleCheckPasses(RuleEndpointRequirement, token.roles) THEN 403
  ELSE IF body.present /\ AllocationRuleBase(body.rules).kind # "ok" THEN 422
  ELSE IF ~found THEN 404
  ELSE IF body.present /\ validate_allocation_rules(body.rules) # "ok" THEN 400
  ELSE 0

\* allocation_rules.py:22-66
create_allocation_rule ==
  /\ service = "running"
  /\ nextReq <= MaxRequests
  /\ \E token \in TokenInputs, body \in RuleBodies,
        source_account_id \in {"A1"}, commit_ok \in BOOLEAN :
       LET refusal == RuleRequestRefusal(token, body, TRUE)
           rule == [rule_id |-> 5 + nextReq, source_account_id |-> source_account_id,
                    is_active |-> TRUE, priority |-> 1,
                    allocation_config |-> StoredConfig(body.rules)]
       IN IF refusal # 0
          THEN /\ log' = Append(log, RuleLogEntry("create_allocation_rule", token, body, refusal))
               /\ UNCHANGED <<rules, audit>>
          ELSE IF ~commit_ok
          THEN /\ log' = Append(log, RuleLogEntry("create_allocation_rule", token, body, 500))
               /\ UNCHANGED <<rules, audit>>
          ELSE /\ rules' = rules \cup {rule}
               /\ audit' = audit \cup log_after_commit("allocation_rule",
                                                       <<0, rule.rule_id>>, "CREATE", nextReq)
               /\ log' = Append(log, RuleLogEntry("create_allocation_rule", token, body, 201))
  /\ nextReq' = nextReq + 1
  /\ UNCHANGED <<ledger, inflight, calc, ext>>

\* allocation_rules.py:108-158; is_active of the body is None or a value
update_allocation_rule ==
  /\ service = "running"
  /\ nextReq <= MaxRequests
  /\ \E token \in TokenInputs, body \in RuleBodies \cup {NoBody},
        rule_id \in RuleIds, is_active \in {"None", "False"}, commit_ok \in BOOLEAN :
       LET found == \E r \in rules : r.rule_id = rule_id
           refusal == RuleRequestRefusal(token, body, found)
           old == CHOOSE r \in rules : r.rule_id = rule_id
           new == [old EXCEPT
                     !.allocation_config =
                        IF body.present THEN StoredConfig(body.rules) ELSE @,
                     !.is_active = IF is_active = "False" THEN FALSE ELSE @]
       IN IF refusal # 0
          THEN /\ log' = Append(log, RuleLogEntry("update_allocation_rule", token, body, refusal))
               /\ UNCHANGED <<rules, audit>>
          ELSE IF ~commit_ok
          THEN /\ log' = Append(log, RuleLogEntry("update_allocation_rule", token, body, 500))
               /\ UNCHANGED <<rules, audit>>
          ELSE /\ rules' = (rules \ {old}) \cup {new}
               /\ audit' = audit \cup log_after_commit("allocation_rule",
                                                       <<0, rule_id>>, "UPDATE", nextReq)
               /\ log' = Append(log, RuleLogEntry("update_allocation_rule", token, body, 200))
  /\ nextReq' = nextReq + 1
  /\ UNCHANGED <<ledger, inflight, calc, ext>>

NextRules ==
  \/ create_allocation_rule
  \/ update_allocation_rule

SpecRules == Init /\ [][NextRules]_vars

----------------------------------------------------------------------------
(* AuditHook with the values it persists (hooks/audit.py)                  *)
(* Values are tuples of one-character strings.                             *)

MaxAuditRows == 2

\* audit.py:178, the default of sensitive_fields
SensitiveFields == {"wallet_address", "private_key", "secret", "password", "token"}

\* audit.py:186 and 188
Sentinel == <<".", ".", ".">>
Mask == <<"*", "*", "*">>

\* audit.py:183-188: one sensitive value that is present and truthy
ObfuscatedValue(value) ==
  IF Len(value) > 8
  THEN SubSeq(value, 1, 4) \o Sentinel \o SubSeq(value, Len(value) - 2, Len(value))
  ELSE Mask

\* obfuscate_sensitive_data (audit.py:166-190) with sensitive_fields = None;
\* data is a function from field names to values
obfuscate_sensitive_data(data) ==
  [field \in DOMAIN data |->
     IF field \in SensitiveFields /\ data[field] # <<>>
     THEN ObfuscatedValue(data[field])
     ELSE data[field]]

\* Values of a field: empty, eight characters, nine characters
FieldValues ==
  { <<>>,
    <<"0", "x", "1", "2", "3", "4", "5", "6">>,
    <<"0", "x", "1", "2", "3", "4", "5", "6", "7">> }

\* Dictionaries a caller builds: any of a sensitive and a plain field
AuditFields == {"wallet_address", "rule_name"}
AuditData == UNION {[fields -> FieldValues] : fields \in SUBSET AuditFields}

\* new_value arguments: a dictionary as built, or one the caller passed
\* through obfuscate_sensitive_data first
NewValues == AuditData \cup {obfuscate_sensitive_data(data) : data \in AuditData}

\* The AuditLog row of audit.py:45-57, with the value it carries
AuditLog(entity_type, entity_id, action, new_value) ==
  [entity_type |-> entity_type, entity_id |-> entity_id, action |-> action,
   new_value |-> new_value]

\* AuditHook.log_change (audit.py:15-63): the row carries new_value as it was
\* passed; db.add and db.commit persist it.
log_change ==
  /\ service = "running"
  /\ Cardinality(audit) < MaxAuditRows
  /\ \E entity_type \in {"account", "allocation_rule"}, action \in {"CREATE", "UPDATE"},
        new_value \in NewValues, commit_ok \in BOOLEAN :
       audit' = IF commit_ok
                THEN audit \cup {AuditLog(entity_type, "e1", action, new_value)}
                ELSE audit
  /\ UNCHANGED <<ledger, rules, inflight, nextReq, log, calc, ext>>

NextAudit == log_change

SpecAudit == Init /\ [][NextAudit]_vars

----------------------------------------------------------------------------
(* Start-up (config.py:57-58, main.py:128-133)                             *)

\* Secrets a deployment may set, by their length in bytes
EnvSecrets == {EnvSecret(length) : length \in {8, 31, 32, 40}}

\* The process before start-up: Settings() has read GUARDIAN_JWT_SECRET from
\* the environment or taken the default of the field (config.py:20-23)
InitStartup ==
  /\ ledger = SeedRows
  /\ audit = {}
  /\ rules = RuleCatalog
  /\ inflight = {}
  /\ nextReq = 1
  /\ log = <<>>
  /\ calc = NoCalc
  /\ validation = NoValidation
  /\ recons = {}
  /\ patches = {}
  /\ patch_out = NoPatchOut
  /\ \E secret \in EnvSecrets \cup {DefaultSecret} :
       settings = Settings(secret, TRUE)
  /\ service = "stopped"

\* startup_event (main.py:128-133) logs the title, the authentication mode and
\* the database and returns; neither it nor Settings() inspects the secret.
startup_event ==
  /\ service = "stopped"
  /\ service' = "running"
  /\ UNCHANGED <<ledger, audit, rules, inflight, nextReq, log, calc,
                 validation, recons, settings, patches, patch_out>>

NextStartup ==
  \/ startup_event
  \/ create_allocation_rule
  \/ update_allocation_rule

SpecStartup == InitStartup /\ [][NextStartup]_vars

----------------------------------------------------------------------------
(* ReconciliationService (services/reconciliation.py)                      *)
(* The handlers of this section do no quantization; their amounts count    *)
(* millionths, so that the threshold of the auto-reconciliation is one     *)
(* unit.                                                                   *)

MaxRecons == 1

\* settings.RECONCILIATION_THRESHOLD (reconciliation.py:116) is not set
\* under src/; the tolerance of the reconciliation contract, 10^-6.
RECONCILIATION_THRESHOLD == 1

\* user_id arguments: None or a user
UserIds == {"None", "u1"}

\* One Reconciliation row (reconciliation.py:99-107, 145-147)
Reconciliation(id, account_id, statement_balance, ledger_balance, status, reconciled_by, reconciled_at) ==
  [id |-> id, account_id |-> account_id, statement_balance |-> statement_balance,
   ledger_balance |-> ledger_balance, status |-> status,
   reconciled_by |-> reconciled_by, reconciled_at |-> reconciled_at]

\* reconciliation.py:145-147: the row as complete_reconciliation leaves it
Completed(rec, user_id) ==
  [rec EXCEPT !.status = "COMPLETED", !.reconciled_by = user_id,
              !.reconciled_at = "now"]

\* reconciliation.py:114-117: the auto-reconciliation completes the row
AutoReconciles(auto, statement_balance, ledger_balance) ==
  auto /\ Abs(statement_balance - ledger_balance) <= RECONCILIATION_THRESHOLD

\* Statement balances a caller may report for an account
StatementBalances(ledger_balance) == {ledger_balance + d : d \in -2..2}

\* reconciliation.py:74-119: the row is committed PENDING (line 111) and, when
\* the auto-reconciliation applies, completed and committed again (line 149)
create_reconciliation ==
  /\ service = "running"
  /\ Cardinality(recons) < MaxRecons
  /\ \E account_id \in Accounts, user_id \in UserIds :
       LET ledger_balance == calculate_ledger_balance(ledger, account_id)
       IN \E statement_balance \in StatementBalances(ledger_balance) :
            LET rec == Reconciliation(Cardinality(recons) + 1, account_id,
                                      statement_balance, ledger_balance,
                                      "PENDING", "None", "None")
            IN recons' = recons \cup
                 {IF AutoReconciles(settings.AUTO_RECONCILE, statement_balance,
                                    ledger_balance)
                  THEN Completed(rec, user_id) ELSE rec}
  /\ UNCHANGED <<ledger, audit, rules, inflight, nextReq, log, calc,
                 validation, settings, service, patches, patch_out>>

\* reconciliation.py:121-152, for a row that exists
complete_reconciliation ==
  /\ service = "running"
  /\ \E rec \in recons, user_id \in UserIds :
       recons' = (recons \ {rec}) \cup {Completed(rec, user_id)}
  /\ UNCHANGED <<ledger, audit, rules, inflight, nextReq, log, calc,
                 validation, settings, service, patches, patch_out>>

\* reconciliation.py:184-205: every listed transaction gets status RECONCILED
mark_transactions_reconciled ==
  /\ service = "running"
  /\ \E transaction_ids \in SUBSET {t.id : t \in ledger} :
       /\ transaction_ids # {}
       /\ ledger' = {IF t.id \in transaction_ids
                     THEN [t EXCEPT !.status = "RECONCILED"] ELSE t : t \in ledger}
  /\ UNCHANGED <<audit, rules, inflight, nextReq, log, calc, ext>>

\* ReconciliationService.get_account_balance, which reconcile_account calls
\* (treasury.py:231-232), is not under src/: the balance of the account as the
\* balance calculator of the specification derives it, credits minus debits.
reconciliation_get_account_balance(rows, account_id) ==
  [balance |-> get_account_balance(rows, account_id),
   transaction_count |-> Cardinality({t \in rows : t.account_id = account_id})]

\* POST /treasury/reconcile (treasury.py:206-268) for an account that exists:
\* one ReconciliationLog row with status SUCCESS; the handler sets no
\* resolution column and calls no audit hook.
reconcile_account ==
  /\ service = "running"
  /\ Cardinality(recons) < MaxRecons
  /\ \E account_id \in Accounts :
       LET balance_info == reconciliation_get_account_balance(ledger, account_id)
       IN \E external_balance \in StatementBalances(balance_info.balance) :
            recons' = recons \cup
              {Reconciliation(Cardinality(recons) + 1, account_id,
                              external_balance, balance_info.balance,
                              "SUCCESS", "None", "None")}
  /\ UNCHANGED <<ledger, audit, rules, inflight, nextReq, log, calc,
                 validation, settings, service, patches, patch_out>>

InitRecon ==
  /\ ledger = SeedRows
  /\ audit = {}
  /\ rules = RuleCatalog
  /\ inflight = {}
  /\ nextReq = 1
  /\ log = <<>>
  /\ calc = NoCalc
  /\ validation = NoValidation
  /\ recons = {}
  /\ patches = {}
  /\ patch_out = NoPatchOut
  /\ \E auto \in BOOLEAN : settings = Settings(EnvSecret(40), auto)
  /\ service = "running"

NextRecon ==
  \/ create_reconciliation
  \/ complete_reconciliation
  \/ mark_transactions_reconciled
  \/ reconcile_account

SpecRecon == InitRecon /\ [][NextRecon]_vars

----------------------------------------------------------------------------
(* POST /api/v1/transactions/double-entry  (transactions.py:112-181)       *)

\* transactions.py:146-173: the two rows of a pair, under one batch_id
DoubleEntryRowsDebitOnly(req, debit_account_id, credit_account_id, amount) ==
  {Row(<<req, 1>>, debit_account_id, "DEBIT", amount, DefaultStatus, req, "api",
       "none", NoId, 0)}
DoubleEntryRows(req, debit_account_id, credit_account_id, amount) ==
  {Row(<<req, 1>>, debit_account_id, "DEBIT", amount, DefaultStatus, req, "api",
       "none", NoId, 0),
   Row(<<req, 2>>, credit_account_id, "CREDIT", amount, DefaultStatus, req, "api",
       "none", NoId, 0)}

\* transactions.py:124-142: one of the accounts does not exist, 404
DoubleEntryNotFound ==
  /\ nextReq <= MaxRequests
  /\ \E debit_account_id \in AccountIds, credit_account_id \in AccountIds :
       /\ {debit_account_id, credit_account_id} \ Accounts # {}
       /\ log' = Append(log, LogEntry("create_double_entry_transaction", NoStatus,
                                      FALSE, "none", 404))
  /\ nextReq' = nextReq + 1
  /\ UNCHANGED <<ledger, audit, rules, inflight, calc, ext>>

\* transactions.py:144-181: both rows are added and committed together (lines
\* 175-177); AuditHook.log_change then commits the audit row on its own
\* (audit.py:59-60).  The handler catches nothing: a commit that raises ends
\* the request with 500 and leaves what was committed before it.
create_double_entry_transaction ==
  /\ nextReq <= MaxRequests
  /\ \E debit_account_id \in Accounts, credit_account_id \in Accounts,
        amount \in {3}, commit_ok \in BOOLEAN, audit_ok \in BOOLEAN :
       IF ~commit_ok
       THEN /\ log' = Append(log, LogEntry("create_double_entry_transaction", NoStatus,
                                           FALSE, "none", 500))
            /\ UNCHANGED <<ledger, audit>>
       ELSE /\ ledger' = ledger \cup
                  DoubleEntryRows(nextReq, debit_account_id, credit_account_id, amount)
            /\ audit' = IF audit_ok
                        THEN audit \cup {AuditEntry("transaction", <<nextReq, 0>>,
                                                    "CREATE_DOUBLE_ENTRY", nextReq)}
                        ELSE audit
            /\ log' = Append(log, LogEntry("create_double_entry_transaction", NoStatus,
                                           FALSE, "none",
                                           IF audit_ok THEN 201 ELSE 500))
  /\ nextReq' = nextReq + 1
  /\ UNCHANGED <<rules, inflight, calc, ext>>

\* The handlers that write batches, next to the other ledger handlers
NextBatches ==
  \/ Next
  \/ DoubleEntryNotFound
  \/ create_double_entry_transaction

SpecBatches == Init /\ [][NextBatches]_vars

----------------------------------------------------------------------------
(* WorkflowPatchAgent (services/workflow_patch_agent.py) and the routes    *)
(* that change a patch (routes/workflow_patches.py)                        *)

MaxPatches == 1

\* models.py:257-260, check_patch_status
PatchStatuses ==
  {"pending", "testing", "tested", "approved", "deployed", "failed", "rolled_back"}

\* deployment_config and rollback_config are Dict[str, Any] (schemas.py:193-194),
\* stored as given.  What the agent reads of them:
\*   stages          a list of dicts with numeric durations ("well_formed"),
\*                   or anything else ("malformed": stage.get or the sum of
\*                   line 564 raises)
\*   auto_rollback   a dict with enabled true / false, or a value without .get
\*   rollback_steps  a list, or a value that cannot be iterated
DeploymentConfig(stages, auto_rollback) == [stages |-> stages, auto_rollback |-> auto_rollback]
RollbackConfig(rollback_steps) == [rollback_steps |-> rollback_steps]

\* workflow_patch_agent.py:318-337 and 339-352
DefaultDeploymentConfig == DeploymentConfig("well_formed", "enabled")
DefaultRollbackConfig == RollbackConfig("well_formed")

\* Configurations a caller of create_patch may send (None takes the default)
DeploymentConfigs ==
  {DeploymentConfig(stages, auto_rollback) :
     stages \in {"well_formed", "malformed"},
     auto_rollback \in {"enabled", "disabled", "malformed"}}
RollbackConfigs == {RollbackConfig(steps) : steps \in {"well_formed", "malformed"}}

\* The WorkflowPatch row of create_patch (workflow_patch_agent.py:296-309)
WorkflowPatch(id, deployment_config, rollback_config) ==
  [id |-> id, status |-> "pending", reviewed_by |-> "None", approved_by |-> "None",
   test_results |-> "None", impact_report |-> "None", tested_at |-> "None",
   deployed_at |-> "None", rolled_back_at |-> "None",
   deployment_config |-> deployment_config, rollback_config |-> rollback_config]

PatchIds == 1..(MaxPatches + 1)
PatchById(patch_id) == {patch \in patches : patch.id = patch_id}
StorePatch(patch) == {other \in patches : other.id # patch.id} \cup {patch}

PatchOut(op, patch_id, kind, message) ==
  [op |-> op, patch_id |-> patch_id, kind |-> kind, message |-> message]

\* create_patch (workflow_patch_agent.py:262-316); the analysis exists or not
create_patch ==
  /\ service = "running"
  /\ Cardinality(patches) < MaxPatches
  /\ \E analysis_found \in BOOLEAN, deployment_config \in DeploymentConfigs,
        rollback_config \in RollbackConfigs :
       LET id == Cardinality(patches) + 1
       IN IF ~analysis_found
          THEN /\ patch_out' = PatchOut("create_patch", 0, "ValueError", <<"Analysis not found">>)
               /\ UNCHANGED patches
          ELSE /\ patches' = patches \cup {WorkflowPatch(id, deployment_config, rollback_config)}
               /\ patch_out' = PatchOut("create_patch", id, "ok", <<>>)
  /\ UNCHANGED <<ledger, audit, rules, inflight, nextReq, log, calc,
                 validation, recons, settings, service>>

\* workflow_patch_agent.py:406-466: the four checks are simulated and pass
run_isolated_tests(patch) == [passed |-> TRUE]
run_integration_tests(patch) == [passed |-> TRUE]
run_safety_checks(patch) == [passed |-> TRUE]
run_compatibility_checks(patch) == [passed |-> TRUE]

\* workflow_patch_agent.py:387-400
TestedAlways(patch) ==
  [patch EXCEPT !.test_results = "test_patch", !.status = "tested"]
Tested(patch) ==
  LET all_passed == /\ run_isolated_tests(patch).passed
                    /\ run_integration_tests(patch).passed
                    /\ run_safety_checks(patch).passed
                    /\ run_compatibility_checks(patch).passed
  IN [patch EXCEPT !.test_results = "test_patch",
                   !.status = IF all_passed THEN "tested" ELSE "failed",
                   !.tested_at = "now"]

\* test_patch (workflow_patch_agent.py:354-404): whatever the status was
test_patch ==
  /\ service = "running"
  /\ \E patch_id \in PatchIds :
       IF PatchById(patch_id) = {}
       THEN /\ patch_out' = PatchOut("test_patch", patch_id, "ValueError", <<"Patch not found">>)
            /\ UNCHANGED patches
       ELSE LET patch == CHOOSE found \in PatchById(patch_id) : TRUE
            IN /\ patches' = StorePatch(Tested(patch))
               /\ patch_out' = PatchOut("test_patch", patch_id, "ok", <<>>)
  /\ UNCHANGED <<ledger, audit, rules, inflight, nextReq, log, calc,
                 validation, recons, settings, service>>

\* workflow_patch_agent.py:491: the statuses deploy_patch accepts
DeployableAnyStatus(status) == TRUE
Deployable(status) == status \in {"tested", "approved"}

\* workflow_patch_agent.py:497-500, committed before the deployment
Approved(patch, approved_by) ==
  IF approved_by # "None"
  THEN [patch EXCEPT !.approved_by = approved_by, !.status = "approved"]
  ELSE patch

\* _execute_deployment (workflow_patch_agent.py:541-568) raises on stages it
\* cannot read
ExecuteDeploymentRaises(patch) == patch.deployment_config.stages # "well_formed"

\* workflow_patch_agent.py:507-514
Deployed(patch) ==
  [patch EXCEPT !.status = "deployed", !.deployed_at = "now",
                !.impact_report = "deploy_patch"]

\* _rollback_patch (workflow_patch_agent.py:622-637)
RollbackRaises(patch) == patch.rollback_config.rollback_steps # "well_formed"
RolledBackKeepsStatus(patch) == [patch EXCEPT !.rolled_back_at = "now"]
RolledBack(patch) == [patch EXCEPT !.status = "rolled_back", !.rolled_back_at = "now"]

\* The except branch of deploy_patch (workflow_patch_agent.py:529-539): the
\* row it leaves committed and whether the branch itself raised before it
\* reached the re-raise
AfterFailedDeployment(patch) ==
  LET auto_rollback == patch.deployment_config.auto_rollback
  IN IF auto_rollback = "malformed"
     THEN [patch |-> patch, kind |-> "AttributeError"]
     ELSE IF auto_rollback = "enabled" /\ RollbackRaises(patch)
     THEN [patch |-> patch, kind |-> "TypeError"]
     ELSE LET rolled == IF auto_rollback = "enabled" THEN RolledBack(patch) ELSE patch
          IN [patch |-> [rolled EXCEPT !.status = "failed"], kind |-> "reraised"]

\* deploy_patch (workflow_patch_agent.py:468-539)
deploy_patch ==
  /\ service = "running"
  /\ \E patch_id \in PatchIds, approved_by \in {"None", "u1"} :
       IF PatchById(patch_id) = {}
       THEN /\ patch_out' = PatchOut("deploy_patch", patch_id, "ValueError", <<"Patch not found">>)
            /\ UNCHANGED patches
       ELSE LET patch == CHOOSE found \in PatchById(patch_id) : TRUE
                approved == Approved(patch, approved_by)
                failed == AfterFailedDeployment(approved)
            IN IF ~Deployable(patch.status)
               THEN /\ patch_out' = PatchOut("deploy_patch", patch_id, "ValueError",
                        <<"Patch must be tested before deployment. Current status: ",
                          patch.status>>)
                    /\ UNCHANGED patches
               ELSE IF ExecuteDeploymentRaises(approved)
               THEN /\ patches' = StorePatch(failed.patch)
                    /\ patch_out' = PatchOut("deploy_patch", patch_id, failed.kind, <<approved_by>>)
               ELSE /\ patches' = StorePatch(Deployed(approved))
                    /\ patch_out' = PatchOut("deploy_patch", patch_id, "ok", <<approved_by>>)
  /\ UNCHANGED <<ledger, audit, rules, inflight, nextReq, log, calc,
                 validation, recons, settings, service>>

\* WorkflowPatchUpdate (schemas.py:202-208): each field is None or a value;
\* status is any value of the pattern.  The bodies explored name no reviewer
\* and carry no impact report.
PatchUpdates ==
  [status : PatchStatuses \cup {"None"}, reviewed_by : {"None"},
   approved_by : {"None", "u2"}, test_results : {"None", "supplied"},
   impact_report : {"None"}]

\* PATCH /patches/{patch_id} (workflow_patches.py:320-377)
update_patch ==
  /\ service = "running"
  /\ \E patch_id \in PatchIds, update_data \in PatchUpdates :
       IF PatchById(patch_id) = {}
       THEN /\ patch_out' = PatchOut("update_patch", patch_id, "404", <<>>)
            /\ UNCHANGED patches
       ELSE LET patch == CHOOSE found \in PatchById(patch_id) : TRUE
                updated ==
                  [patch EXCEPT
                     !.status = IF update_data.status # "None" THEN update_data.status ELSE @,
                     !.reviewed_by =
                        IF update_data.reviewed_by # "None" THEN update_data.reviewed_by ELSE @,
                     !.approved_by =
                        IF update_data.approved_by # "None" THEN update_data.approved_by ELSE @,
                     !.impact_report =
                        IF update_data.impact_report # "None" THEN update_data.impact_report ELSE @,
                     !.test_results =
                        IF update_data.test_results # "None" THEN update_data.test_results ELSE @]
            IN /\ patches' = StorePatch(updated)
               /\ patch_out' = PatchOut("update_patch", patch_id, "200", <<>>)
  /\ UNCHANGED <<ledger, audit, rules, inflight, nextReq, log, calc,
                 validation, recons, settings, service>>

\* workflow_patches.py:429: the statuses the rollback endpoint accepts
RollbackAllowed(status) == status = "deployed"

\* DELETE /patches/{patch_id}/rollback (workflow_patches.py:406-457)
rollback_patch ==
  /\ service = "running"
  /\ \E patch_id \in PatchIds :
       IF PatchById(patch_id) = {}
       THEN /\ patch_out' = PatchOut("rollback_patch", patch_id, "404", <<>>)
            /\ UNCHANGED patches
       ELSE LET patch == CHOOSE found \in PatchById(patch_id) : TRUE
            IN IF ~RollbackAllowed(patch.status)
               THEN /\ patch_out' = PatchOut("rollback_patch", patch_id, "400",
                        <<"Only deployed patches can be rolled back. Current status: ",
                          patch.status>>)
                    /\ UNCHANGED patches
               ELSE IF RollbackRaises(patch)
               THEN /\ patch_out' = PatchOut("rollback_patch", patch_id, "500", <<>>)
                    /\ UNCHANGED patches
               ELSE /\ patches' = StorePatch(RolledBack(patch))
                    /\ patch_out' = PatchOut("rollback_patch", patch_id, "200", <<>>)
  /\ UNCHANGED <<ledger, audit, rules, inflight, nextReq, log, calc,
                 validation, recons, settings, service>>

NextPatches ==
  \/ create_patch
  \/ test_patch
  \/ deploy_patch
  \/ update_patch
  \/ rollback_patch

SpecPatches == Init /\ [][NextPatches]_vars

----------------------------------------------------------------------------
(* Properties of the allocation arithmetic (checked under SpecCalc)        *)

CalcDone == calc.kind # "input" /\ calc.kind # "none"

\* The destinations the call kept, and the amounts it returned
CalcDests == ApplicableDestinations(calc.amount, calc.config)
CalcReturned == [i \in 1..Len(calc.allocations) |-> calc.allocations[i].amount]

\* C1: for every parent amount A and every rule the percentage-sum check
\* accepts, the amounts calculate_allocations returns sum exactly to A, and the
\* CREDIT rows execute_allocation writes sum exactly to the amount of the
\* single DEBIT row of the same batch.
C1_SumExact ==
  (CalcDone /\ calc.allocations # <<>>) =>
    /\ SumSeq(CalcReturned) = calc.amount
    /\ calc.kind = "ok" =>
         LET debits == {t \in calc.rows : t.transaction_type = "DEBIT"}
             credits == {t \in calc.rows : t.transaction_type = "CREDIT"}
         IN /\ Cardinality(debits) = 1
            /\ Cardinality(credits) = Len(calc.allocations)
            /\ \A d \in debits : d.amount = calc.amount
                                 /\ SumAmounts(credits) = d.amount
            /\ \A t \in calc.rows : t.batch_id = 1

\* C1 witness: an accepted rule with several destinations where truncation
\* drops a fraction of a quantum, so that the remainder has to absorb it.
C1_Witness ==
  /\ calc.kind = "ok"
  /\ Len(calc.allocations) >= 2
  /\ \E i \in 1..(Len(CalcDests) - 1) :
       (calc.amount * CalcDests[i].percentage) % Hundred # 0
  /\ C1_SumExact

\* C6 (as claimed): for a non-negative parent amount and a rule that passes
\* the percentage-sum check, no row written by the allocation engine and no
\* returned amount is negative, the remainder of the last destination included.
C6_NonNegative ==
  (CalcDone /\ calc.allocations # <<>> /\ calc.amount >= 0
     /\ \A i \in 1..Len(calc.config) :
          calc.config[i].percentage >= 0 /\ calc.config[i].percentage <= Hundred) =>
    /\ \A i \in 1..Len(CalcReturned) : CalcReturned[i] >= 0
    /\ \A t \in calc.rows : t.amount >= 0

\* Distance, in 1/Hundred of a quantum, between the i-th returned amount and
\* amount * percentage / 100
ShareError(i) ==
  Abs(CalcReturned[i] * Hundred - calc.amount * CalcDests[i].percentage)

\* C7 (as claimed): every child amount, the last one included, is within one
\* quantization unit of parent amount * percentage / 100.
C7_OneQuantumEach ==
  (CalcDone /\ calc.allocations # <<>>) =>
    \A i \in 1..Len(CalcReturned) : ShareError(i) <= Hundred

\* C7 (amended): every child amount but the last is within one quantization
\* unit of amount * percentage / 100; the last one, which receives the
\* remainder, is within (N - 1) quantization units plus 0.01 % of the parent
\* amount (the tolerance of the percentage-sum check) of it.
C7_RemainderBound ==
  (CalcDone /\ calc.allocations # <<>>) =>
    LET n == Len(CalcReturned)
    IN /\ \A i \in 1..(n - 1) : ShareError(i) < Hundred
       /\ ShareError(n) <= (n - 1) * Hundred + Abs(calc.amount) * Tolerance

\* C7 witness: three destinations, and the last amount is more than one
\* quantization unit away from its percentage share.
C7_Witness ==
  /\ calc.kind = "ok"
  /\ calc.amount > 0
  /\ TotalPercentage(CalcDests) = Hundred
  /\ Len(CalcReturned) = 3
  /\ ShareError(3) > Hundred
  /\ C7_RemainderBound

----------------------------------------------------------------------------
(* Properties of the write path (checked under Spec)                       *)

Requests == DOMAIN log

\* What request r made durable
RowsOf(r) == {t \in ledger : t.id[1] = r}
AuditOf(r) == {a \in audit : a.req = r}
InflightOf(r) == {t \in inflight : t.req = r}

\* The spellings of COMPLETED among the request inputs
CompletedSpellings ==
  {COMPLETED, <<"c", "o", "m", "p", "l", "e", "t", "e", "d">>}

AsksCompleted(r) ==
  log[r].status.present /\ log[r].status.text \in CompletedSpellings

\* C2: when create_transaction is called with status COMPLETED and the
\* allocation step fails (no active rule, applicable percentages not summing
\* to 100, a destination account that does not exist, a failing commit),
\* nothing of that request is durable: no parent, no source debit, no
\* destination credit, no audit row, and no step of it is left to run.
C2_NothingPersisted ==
  \A r \in Requests :
    (log[r].op = "create_transaction" /\ AsksCompleted(r)
       /\ log[r].alloc \notin {"none", "ok"}) =>
      /\ RowsOf(r) = {}
      /\ AuditOf(r) = {}
      /\ InflightOf(r) = {}
      /\ log[r].code \in {400, 500}

\* C2 witness: a completing request whose rule names a destination account
\* that does not exist has flushed its parent, failed in the allocation step
\* and been answered, and nothing of it is durable.
C2_Witness ==
  \E r \in Requests :
    /\ log[r].op = "create_transaction" /\ AsksCompleted(r)
    /\ log[r].alloc = "IntegrityError" /\ log[r].code = 500
    /\ RowsOf(r) = {} /\ AuditOf(r) = {}

\* C3 (as claimed): in every committed state a transaction created by
\* create_transaction is durable iff its audit entry is, and an allocation
\* rule is gone iff the audit entry of its deletion is durable.
C3_AuditSameUnit ==
  /\ \A t \in ledger : t.source_system = "api" =>
       \E a \in audit : a.entity_type = "transaction" /\ a.entity_id = t.id
  /\ \A a \in audit : a.entity_type = "transaction" =>
       \E t \in ledger : t.id = a.entity_id
  /\ \A a \in audit : a.entity_type = "allocation_rule" /\ a.action = "DELETE" =>
       \A r \in rules : <<0, r.rule_id>> # a.entity_id
  /\ \A r \in RuleCatalog \ rules :
       \E a \in audit : a.entity_type = "allocation_rule"
                        /\ a.entity_id = <<0, r.rule_id>>

\* C4 (as claimed): a parent transaction never has two sets of allocation
\* children: all allocation rows that quote one parent belong to one batch,
\* with one source debit.
C4_SingleAllocationPerParent ==
  \A p \in {t.parent : t \in ledger} \ {NoId} :
    LET children == {t \in ledger : t.parent = p}
    IN /\ Cardinality({t.batch_id : t \in children}) <= 1
       /\ Cardinality({t \in children : t.allocation_type = "source"}) <= 1

\* The rule a batch was made with
RuleOf(rule_id) == CHOOSE r \in RuleCatalog : r.rule_id = rule_id

\* C5: in every committed state, the parent of a completing create_transaction
\* is present iff the source debit and every destination credit of its
\* allocation are present (one credit per applicable destination of the rule,
\* on that destination's account).
C5_NoIntermediateState ==
  \A r \in Requests :
    (log[r].op = "create_transaction" /\ AsksCompleted(r)) =>
      LET parents == {t \in RowsOf(r) : t.source_system = "api"}
          debits == {t \in RowsOf(r) : t.allocation_type = "source"}
          credits == {t \in RowsOf(r) : t.allocation_type = "destination"}
      IN /\ (parents # {}) <=> (debits # {})
         /\ credits # {} => parents # {}
         /\ \A d \in debits :
              LET dests == ApplicableDestinations(d.amount,
                             RuleOf(d.rule_id).allocation_config)
              IN /\ d.parent = <<r, 0>>
                 /\ Cardinality(credits) = Len(dests)
                 /\ \A i \in 1..Len(dests) :
                      \E c \in credits :
                        /\ c.id = <<r, 1 + i>>
                        /\ c.account_id = dests[i].destination_account_id
                        /\ c.parent = <<r, 0>>
                        /\ c.batch_id = d.batch_id

\* C5 witness: a completing request has committed its parent and its batch
\* and has not answered yet, so a concurrent reader sees this state.
C5_Witness ==
  \E r \in Requests :
    /\ log[r].op = "create_transaction" /\ AsksCompleted(r)
    /\ log[r].code = 0
    /\ \E t \in RowsOf(r) : t.source_system = "api"
    /\ Cardinality({t \in RowsOf(r) : t.allocation_type = "destination"}) = 3

\* The balance the claim describes: debits minus credits over posted
\* transactions, sign flipped for liability, equity and revenue accounts
\* (in either spelling of the account type).
ClaimedBalance(account_id) ==
  LET posted == {t \in ledger : t.account_id = account_id /\ t.status = "POSTED"}
      net == SumAmounts({t \in posted : t.transaction_type = "DEBIT"})
             - SumAmounts({t \in posted : t.transaction_type = "CREDIT"})
  IN IF AccountType[account_id] \in {"LIABILITY", "EQUITY", "REVENUE",
                                      "liability", "equity", "revenue"}
     THEN -net ELSE net

\* C8 (as claimed): for every account, the balance the service computes, by
\* either of its balance functions, is debits minus credits over posted
\* transactions only, with the sign flipped for liability, equity and revenue
\* accounts.
C8_BalanceFormula ==
  \A a \in Accounts :
    /\ get_account_balance(ledger, a) = ClaimedBalance(a)
    /\ calculate_ledger_balance(ledger, a) = ClaimedBalance(a)

\* One step that commits an allocation batch
NewRows == ledger' \ ledger
NewSources == {t \in NewRows : t.allocation_type = "source"}
NewDestinations == {t \in NewRows : t.allocation_type = "destination"}
AllocatedTo(d) == SumAmounts({t \in NewDestinations : t.account_id = d})

\* The whole batch becomes durable in this step
BatchInOneCommit ==
  \A s \in NewSources :
    \A t \in ledger' : t.batch_id = s.batch_id => t \in NewRows

C10_AllocationIffCompleted ==
  \A r \in Requests :
    (log[r].op = "create_transaction" /\ log[r].code # 404) =>
      /\ log[r].invoked <=> AsksCompleted(r)
      /\ ~AsksCompleted(r) =>
           /\ \A t \in RowsOf(r) : t.id = <<r, 0>> /\ t.allocation_type = "none"
           /\ log[r].alloc = "none"
           /\ log[r].code \in {0, 201} => Cardinality(RowsOf(r)) = 1

\* C10 witness: a request spelled "completed" has run the allocation and
\* stored its batch, and a request with status PENDING has stored exactly
\* its parent.
C10_Witness ==
  /\ \E r \in Requests :
       /\ log[r].op = "create_transaction"
       /\ log[r].status = Status(<<"c", "o", "m", "p", "l", "e", "t", "e", "d">>)
       /\ log[r].invoked
       /\ \E t \in RowsOf(r) : t.allocation_type = "destination"
  /\ \E r \in Requests :
       /\ log[r].op = "create_transaction"
       /\ log[r].status = Status(<<"P", "E", "N", "D", "I", "N", "G">>)
       /\ ~log[r].invoked
       /\ Cardinality(RowsOf(r)) = 1

----------------------------------------------------------------------------
(* Properties of rule validation (checked under SpecValidate)              *)

Validated == validation.kind \notin {"none", "input"}
InWindow(total) == Hundred - Tolerance <= total /\ total <= Hundred + Tolerance

----------------------------------------------------------------------------
(* Properties of the allocation-rule routes (checked under SpecRules)      *)

\* The request answered in this step, when the step answers one
Answered == log'[Len(log')]
AnswersRuleRequest ==
  /\ Len(log') = Len(log) + 1
  /\ Answered.op \in {"create_allocation_rule", "update_allocation_rule"}

NamesMissingAccount(body) ==
  body.present /\
  \E i \in 1..Len(body.rules) : body.rules[i].destination_account_id \notin Accounts

\* C12 (as claimed): a request that creates or updates an allocation rule and
\* names a destination account that does not exist is rejected, and the
\* rules are as they were before it.
C12_MissingDestinationRejected ==
  [][(AnswersRuleRequest /\ NamesMissingAccount(Answered.body)) =>
       /\ Answered.code \in {400, 401, 403, 404, 422}
       /\ rules' = rules]_vars

HoldsRole(token, name) == \E j \in 1..Len(token.roles) : token.roles[j] = name

\* C18 (as claimed): a caller with a valid token is admitted by an
\* allocation-rule endpoint iff the roles of the token include the role the
\* endpoint requires, "allocation_manager"; every other caller is answered
\* 403.
C18_AdmittedIffRole ==
  \A r \in DOMAIN log :
    (log[r].op \in {"create_allocation_rule", "update_allocation_rule"}
       /\ log[r].token.valid) =>
      (log[r].code # 403 <=> HoldsRole(log[r].token, AllocationManager))

----------------------------------------------------------------------------
(* Properties of reconciliation (checked under SpecRecon)                  *)

NewRecons == recons' \ recons
IsResolved(rec) == rec.status = "COMPLETED"

\* C13 (as claimed): the step that creates a reconciliation row stores the
\* internal balance of that moment, hence a discrepancy of external minus
\* internal balance, and leaves the row resolved exactly when the absolute
\* discrepancy is below the tolerance.
C13_ResolvedIffBelowTolerance ==
  [][\A rec \in NewRecons :
       (\A old \in recons : old.id # rec.id) =>
         /\ rec.ledger_balance \in
              {calculate_ledger_balance(ledger, rec.account_id),
               reconciliation_get_account_balance(ledger, rec.account_id).balance}
         /\ IsResolved(rec) <=>
              Abs(rec.statement_balance - rec.ledger_balance)
                < RECONCILIATION_THRESHOLD]_vars

\* C14 (as claimed): a reconciliation row has its resolution time and its
\* resolver both set iff it is resolved.
C14_ResolverIffResolved ==
  \A rec \in recons :
    (rec.reconciled_at # "None" /\ rec.reconciled_by # "None") <=> IsResolved(rec)

\* C15 (as claimed): the status of a transaction changes only from PENDING
\* to COMPLETED, FAILED or CANCELLED; no step changes a terminal status.
C15_StatusLattice ==
  [][\A t \in ledger : \A u \in ledger' :
       (u.id = t.id /\ u.status # t.status) =>
         /\ t.status = "PENDING"
         /\ u.status \in {"COMPLETED", "FAILED", "CANCELLED"}]_vars

----------------------------------------------------------------------------
(* Properties of start-up (checked under SpecStartup)                      *)

WeakSecret(secret) == secret.is_default \/ secret.length < 32

\* C20 (as claimed): the service is never running, and no request is ever
\* answered, while the configured JWT secret is the default or shorter than
\* 32 bytes.
C20_NoWeakSecretRunning ==
  (service = "running" \/ Len(log) > 0) => ~WeakSecret(settings.GUARDIAN_JWT_SECRET)

----------------------------------------------------------------------------
(* Properties of the persisted audit values (checked under SpecAudit)      *)

\* The shape obfuscation leaves: the mask, or four characters, the sentinel
\* and three characters
HasObfuscatedShape(value) ==
  \/ value = Mask
  \/ Len(value) = 10 /\ SubSeq(value, 5, 7) = Sentinel

\* C19 (as claimed): every value of a sensitive field in a persisted audit
\* entry has been replaced by its first 4 and last 3 characters around the
\* sentinel, or by the mask; no entry holds the value as the caller gave it.
C19_SensitiveValuesObfuscated ==
  \A entry \in audit :
    \A field \in DOMAIN entry.new_value \cap SensitiveFields :
      HasObfuscatedShape(entry.new_value[field])

----------------------------------------------------------------------------
(* Properties of the audit log (checked under Spec)                        *)

\* C16: the audit log is append-only; every step of the service keeps every
\* audit entry as it is, so the set of entries only grows.
C16_AuditAppendOnly == [][audit \subseteq audit']_vars

\* C16 witness: an entry was appended to an audit log that already held one
C16_Witness == Cardinality(audit) >= 2

\* C17 (as claimed): every answered mutating call that succeeded (200, 201)
\* has exactly one audit entry, and a call answered with an error has none.
C17_ExactlyOneAuditRow ==
  \A req \in Requests :
    /\ log[req].code \in {200, 201} => Cardinality(AuditOf(req)) = 1
    /\ log[req].code >= 400 => AuditOf(req) = {}

----------------------------------------------------------------------------
(* Properties of the patch agent (checked under SpecPatches)               *)

\* The call that ends with this step, and the patch it was made on
PatchCall(op) == patch_out'.op = op
PatchBefore == PatchById(patch_out'.patch_id)
PatchAfter == {patch \in patches' : patch.id = patch_out'.patch_id}
MustBeTested == "Patch must be tested before deployment. Current status: "

\* C21: deploy_patch on a patch whose status is neither tested nor approved
\* raises a ValueError saying that the patch must be tested, and leaves the
\* patch (status, approved_by, deployed_at and the rest) as it was.
C21_UntestedDeployRejected ==
  [][\A patch \in PatchBefore :
       (PatchCall("deploy_patch") /\ patch.status \notin {"tested", "approved"}) =>
         /\ patch_out'.kind = "ValueError"
         /\ patch_out'.message = <<MustBeTested, patch.status>>
         /\ patches' = patches]_vars

\* C21 witness: deploy_patch has just refused a patch that is still pending
C21_Witness ==
  /\ patch_out.op = "deploy_patch"
  /\ patch_out.kind = "ValueError"
  /\ \E patch \in PatchById(patch_out.patch_id) :
       /\ patch.status = "pending"
       /\ patch_out.message = <<MustBeTested, "pending">>

\* A patch as create_patch left it, and as test_patch leaves such a patch
FreshPatch(patch) ==
  patch = WorkflowPatch(patch.id, patch.deployment_config, patch.rollback_config)
FreshlyTested(patch) ==
  patch = [WorkflowPatch(patch.id, patch.deployment_config, patch.rollback_config)
             EXCEPT !.status = "tested", !.test_results = "test_patch",
                    !.tested_at = "now"]

\* test_patch on a patch fresh from create_patch leaves it tested, with
\* tested_at and test_results set
TestStepLeavesTested ==
  \A patch \in PatchBefore :
    (PatchCall("test_patch") /\ FreshPatch(patch)) =>
      \A after \in PatchAfter :
        /\ after.status = "tested"
        /\ after.tested_at # "None"
        /\ after.test_results # "None"

\* What deploy_patch(approved_by) leaves of a patch it deployed
DeployedBy(after, approved_by) ==
  /\ after.status = "deployed"
  /\ after.deployed_at # "None"
  /\ after.impact_report # "None"
  /\ after.tested_at # "None"
  /\ after.test_results # "None"
  /\ after.approved_by = approved_by

\* C22 (as claimed): for every patch created by create_patch, test_patch leaves
\* it tested and a deploy_patch(approved_by) that follows leaves it deployed,
\* with tested_at, test_results, deployed_at and impact_report set and
\* approved_by equal to the approver.
C22_TestThenDeploy ==
  [][/\ TestStepLeavesTested
     /\ \A patch \in PatchBefore :
          (PatchCall("deploy_patch") /\ FreshlyTested(patch)) =>
            \A after \in PatchAfter : DeployedBy(after, patch_out'.message[1])]_vars

\* C22 (amended): the same, for every patch created by create_patch whose
\* deployment_config has stages the deployment step can read (a list of dicts
\* with numeric durations, as the default configuration has); with other
\* stages the deployment step raises and the patch does not end deployed.
C22_TestThenDeployReadableStages ==
  [][/\ TestStepLeavesTested
     /\ \A patch \in PatchBefore :
          (/\ PatchCall("deploy_patch")
           /\ FreshlyTested(patch)
           /\ patch.deployment_config.stages = "well_formed") =>
            \A after \in PatchAfter : DeployedBy(after, patch_out'.message[1])]_vars

\* C22 witness: a patch created, tested and then deployed by the approver u1
C22_Witness ==
  /\ patch_out.op = "deploy_patch"
  /\ patch_out.kind = "ok"
  /\ \E patch \in PatchById(patch_out.patch_id) :
       /\ DeployedBy(patch, "u1")
       /\ patch.deployment_config = DefaultDeploymentConfig
       /\ patch.rollback_config = DefaultRollbackConfig
       /\ patch.rolled_back_at = "None"

\* What the rollback endpoint does with a patch that is not deployed
RollbackRefused(patch) ==
  (PatchCall("rollback_patch") /\ patch.status # "deployed") =>
    /\ patch_out'.kind = "400"
    /\ patches' = patches

\* C23 (as claimed): the rollback endpoint leaves every deployed patch in
\* status rolled_back with rolled_back_at set, and rejects with 400, leaving
\* the patch unchanged, a patch whose status is not deployed.
C23_RollbackOnlyDeployed ==
  [][\A patch \in PatchBefore :
       /\ RollbackRefused(patch)
       /\ (PatchCall("rollback_patch") /\ patch.status = "deployed") =>
            \A after \in PatchAfter :
              after.status = "rolled_back" /\ after.rolled_back_at # "None"]_vars

\* C23 (amended): the same, where the rollback of a deployed patch is one whose
\* rollback_config has rollback steps that can be iterated; with other steps
\* the endpoint answers 500 and the patch stays deployed.
C23_RollbackOnlyDeployedReadableSteps ==
  [][\A patch \in PatchBefore :
       /\ RollbackRefused(patch)
       /\ (PatchCall("rollback_patch") /\ patch.status = "deployed") =>
            \A after \in PatchAfter :
              IF patch.rollback_config.rollback_steps = "well_formed"
              THEN /\ after = [patch EXCEPT !.status = "rolled_back",
                                            !.rolled_back_at = after.rolled_back_at]
                   /\ after.rolled_back_at # "None"
                   /\ patch_out'.kind = "200"
              ELSE after = patch /\ patch_out'.kind = "500"]_vars

\* C23 witness: the endpoint has just rolled a deployed patch back
C23_Witness ==
  /\ patch_out.op = "rollback_patch"
  /\ patch_out.kind = "200"
  /\ \E patch \in PatchById(patch_out.patch_id) :
       /\ patch.status = "rolled_back"
       /\ patch.rolled_back_at # "None"
       /\ patch.deployed_at # "None"

\* C24 (as claimed): a patch is in status deployed only if a test_patch on it
\* has finished with all checks passed (tested_at set, test_results recorded).
C24_DeployedOnlyIfTested ==
  \A patch \in patches :
    patch.status = "deployed" =>
      patch.tested_at # "None" /\ patch.test_results # "None"

\* C30 (as claimed): when the deployment step of deploy_patch raises, the
\* error is re-raised and the patch is persisted in status failed, with
\* rolled_back_at set when auto-rollback is enabled; it is never left in
\* approved or deployed.
C30_FailedDeploymentLeavesFailed ==
  [][\A patch \in PatchBefore :
       (/\ PatchCall("deploy_patch")
        /\ patch.status \in {"tested", "approved"}
        /\ ExecuteDeploymentRaises(patch)) =>
          /\ patch_out'.kind = "reraised"
          /\ \A after \in PatchAfter :
               /\ after.status = "failed"
               /\ patch.deployment_config.auto_rollback = "enabled" =>
                    after.rolled_back_at # "None"]_vars

----------------------------------------------------------------------------
(* Properties of batches (checked under SpecBatches)                       *)

\* The batches written by execute_allocation and by the double-entry route
BatchIds == {t.batch_id : t \in ledger} \ {0}
BatchRows(batch_id) == {t \in ledger : t.batch_id = batch_id}
BatchSide(batch_id, side) == {t \in BatchRows(batch_id) : t.transaction_type = side}

\* C27: in every committed state, each batch has a DEBIT side and a CREDIT
\* side and the amounts of the two sides have the same sum.
C27_BatchesBalanced ==
  \A batch_id \in BatchIds :
    /\ BatchSide(batch_id, "DEBIT") # {}
    /\ BatchSide(batch_id, "CREDIT") # {}
    /\ SumAmounts(BatchSide(batch_id, "DEBIT")) = SumAmounts(BatchSide(batch_id, "CREDIT"))

\* C27 witness: a batch of the double-entry route and a batch of
\* execute_allocation with more than one credit are both committed
C27_Witness ==
  /\ \E t \in ledger : t.batch_id # 0 /\ t.source_system = "api"
  /\ \E batch_id \in BatchIds :
       /\ \E t \in BatchRows(batch_id) : t.source_system = "allocation_engine"
       /\ Cardinality(BatchSide(batch_id, "CREDIT")) > 1

----------------------------------------------------------------------------
(* Properties of the two balances (checked under SpecRecon)                *)

\* C25 (as claimed): a step that marks transactions as reconciled leaves
\* calculate_ledger_balance of every account as it was.
C25_MarkingKeepsBalance ==
  [][ledger' # ledger =>
       \A account_id \in Accounts :
         calculate_ledger_balance(ledger', account_id)
           = calculate_ledger_balance(ledger, account_id)]_vars

\* The transactions that are posted
Posted == {t \in ledger : t.status = "POSTED"}

\* C26 (as claimed): for every account and every set of posted transactions,
\* AllocationService.get_account_balance and
\* ReconciliationService.calculate_ledger_balance return the same balance.
C26_BalancesAgree ==
  \A account_id \in Accounts :
    get_account_balance(Posted, account_id)
      = calculate_ledger_balance(Posted, account_id)

----------------------------------------------------------------------------
(* Properties of conditional destinations (checked under SpecCalc)         *)

\* The condition of a destination, read as the comparison it states
ConditionHolds(amount, dest) ==
  CASE dest.condition.op = ">" -> amount > dest.condition.threshold
    [] dest.condition.op = "<" -> amount < dest.condition.threshold
    [] OTHER -> TRUE

\* The destinations whose condition holds for the amount of the call
Remaining == SelectSeq(calc.config, LAMBDA dest : ConditionHolds(calc.amount, dest))
RemainingTotal == SumSeq([i \in 1..Len(Remaining) |-> Remaining[i].percentage])
WellFormedConditions ==
  \A i \in 1..Len(calc.config) : calc.config[i].condition.op # "malformed"

\* C29: a destination with condition "amount > T" ("amount < T") takes part
\* iff the amount is strictly greater (less) than T; when the percentages of
\* the destinations that take part do not sum to 100 within 0.01 the call
\* raises ValueError and no row is created; otherwise the destinations
\* returned are exactly those that take part, each with its own percentage.
C29_ConditionsStrictNoRedistribution ==
  (CalcDone /\ WellFormedConditions) =>
    IF Abs(RemainingTotal - Hundred) > Tolerance
    THEN calc.kind = "ValueError" /\ calc.allocations = <<>> /\ calc.rows = {}
    ELSE /\ calc.kind # "ValueError"
         /\ Len(calc.allocations) = Len(Remaining)
         /\ \A i \in 1..Len(Remaining) :
              /\ calc.allocations[i].destination_account_id
                   = Remaining[i].destination_account_id
              /\ calc.allocations[i].percentage = Remaining[i].percentage

\* C29 witness: at the threshold itself a destination "amount > 5" holding
\* half of the percentages is left out, and the call has raised without rows
C29_Witness ==
  /\ calc.kind = "ValueError"
  /\ calc.rows = {}
  /\ calc.amount = 5
  /\ calc.config = <<Dest("A2", 5000), DestIf("A3", 5000, ">", 5)>>

----------------------------------------------------------------------------
(* Properties of the rule execute_allocation applies (checked under Spec)  *)

\* C28 (as claimed): every source debit execute_allocation writes is made
\* with a rule that is active and whose source_account_id is the debited
\* account, also when the rule was named by an explicit rule_id.
C28_RuleOfSourceAccount ==
  [][\A t \in ledger' \ ledger :
       t.allocation_type = "source" =>
         \E rule \in rules :
           /\ rule.rule_id = t.rule_id
           /\ rule.is_active
           /\ rule.source_account_id = t.account_id]_vars

====
